---- MODULE Spec2Model ----
(***************************************************************************)
(* WhatsAppManager (lib/whatsapp.ts): the registry of instance sessions,   *)
(* the lifecycle commands, the handlers of the protocol client's           *)
(* notifications and what they persist and publish.                        *)
(*                                                                         *)
(* The manager runs on one JavaScript event loop: a handler runs without   *)
(* interruption up to its next `await`, and its continuation is a later    *)
(* step that any other handler or command may precede.  Every action below *)
(* is one such uninterrupted segment.  The protocol client, QR rendering   *)
(* and the repository (prisma) are collaborators: a call to one of them is *)
(* issued in one step and resolves or rejects in a later one.              *)
(***************************************************************************)
EXTENDS Integers, Sequences, FiniteSets, TLC

\* Commands invoked plus notifications emitted in one behaviour.
MaxOps == 3

\* The longest address drawn for formatNumber, in characters.
MaxLen == 3

\* Listeners registered on the manager's bus.
MaxSubs == 2

AllIds == {"a", "b"}
\* The WAInstance objects a behaviour can build: the two a behaviour may start
\* with and one for each operation.
Handles == 1..(MaxOps + 2)
None == 0
Undefined == <<>>

VARIABLES
    ids,           \* the instance ids callers use in this run
    instances,     \* this.instances: id -> handle (None: no entry)
    handle,        \* the WAInstance objects: handle -> {id, status, qrCode, qrCodeBase64}
    client,        \* the protocol client of each handle: new | started | destroyed
    sessionStore,  \* ids with a credential directory under env.waSessionPath
    db,            \* prisma.instance rows: id -> {status, waNumber, waName}
    events,        \* what this.emit published, in order
    tasks,         \* commands and handlers suspended at an await
    hist,          \* commands invoked and notifications emitted, in order
    calls,         \* calls issued to each handle's protocol client
    outcome,       \* what the step just taken returned to a command's caller
    number,        \* the argument of a formatNumber call, a sequence of characters
    chatId,        \* what formatNumber returned for it (Undefined: not called yet)
    passed,        \* the address a facade method handed to the protocol client
    delivered,     \* <<n, subscriber>>: the listeners of the bus that event n reached
    users,         \* prisma.user rows: email -> stored password hash (NoUser: no row)
    pending,       \* the POST /auth/login request suspended after its lookup
    reply          \* the latest response of an /auth route, with the request it answers

vars == <<ids, instances, handle, client, sessionStore, db, events, tasks, hist, calls, outcome>>

avars == <<users, pending, reply>>

fvars == <<number, chatId, passed, delivered, users, pending, reply>>

----------------------------------------------------------------------------
\* Values

NoHandle == [id |-> "", status |-> "none", qrCode |-> Undefined, qrCodeBase64 |-> Undefined]

\* WAInstance as createInstance builds it: status 'disconnected', no challenge.
NewInstance(i) ==
    [id |-> i, status |-> "disconnected", qrCode |-> Undefined, qrCodeBase64 |-> Undefined]

NoCalls == [initialize |-> 0, destroy |-> 0, logout |-> 0, sendMessage |-> 0]

NoRow == [status |-> "DISCONNECTED", waNumber |-> Undefined, waName |-> Undefined]

NoOutcome == [op |-> "none", id |-> "", res |-> "", err |-> "", h |-> None, pre |-> "", n |-> 0]

\* No facade method has handed the client an address.
NotPassed == [site |-> "none", arg |-> Undefined]

\* The raw challenge of the n-th operation's 'qr' notification.
Qr(n) == <<"qr", n>>

\* QRCode.toDataURL: the data URL of the rendered challenge.
ToDataURL(qr) == <<"data:image/png;base64", qr>>

\* client.info of the account behind an instance.
WidUser(i) == <<"number", i>>
PushName(i) == <<"name", i>>

Allocated == {h \in Handles : handle[h].status # "none"}

\* The next WAInstance object createInstance allocates.
FreshHandle == Cardinality(Allocated) + 1

\* getStatus, with 'none' for 'not_found'.
StatusOf(i) == IF instances[i] = None THEN "none" ELSE handle[instances[i]].status

Started(op, i, h) == hist' = Append(hist, [op |-> op, id |-> i, h |-> h])

Task(op, i, h, pc, qr) ==
    [n |-> Len(hist) + 1, op |-> op, id |-> i, h |-> h, pc |-> pc, qr |-> qr]

At(t, pc) == (tasks \ {t}) \cup {[t EXCEPT !.pc = pc]}

Returns(t, res, err) ==
    outcome' = [op |-> t.op, id |-> t.id, res |-> res, err |-> err,
                h |-> t.h, pre |-> "", n |-> t.n]

ReturnsNow(op, i, res, err, h, pre) ==
    outcome' = [op |-> op, id |-> i, res |-> res, err |-> err,
                h |-> h, pre |-> pre, n |-> Len(hist) + 1]

Silent == outcome' = NoOutcome

\* What a settled repository call leaves to see: nothing when it resolved,
\* the logged (or thrown) error when it rejected.
Settled(ok) == IF ok THEN "" ELSE "PersistenceUnavailable"

\* A handler's step that returns to no caller; logger.error shows a rejected
\* status update.
Logs(t, ok) ==
    outcome' = IF ok THEN NoOutcome
               ELSE [op |-> t.op, id |-> t.id, res |-> "", err |-> Settled(ok),
                     h |-> t.h, pre |-> "", n |-> t.n]

Emit(kind, t, qr, qrBase64) ==
    events' = Append(events, [kind |-> kind, instanceId |-> t.id, n |-> t.n,
                              qr |-> qr, qrBase64 |-> qrBase64])

CanStart == Len(hist) < MaxOps

\* The /auth routes: the bodies clients post, and the idle values.
Emails == {"ana@example.com", "bob@example.com"}
Passwords == {"secret1", "secret2"}
NoUser == <<"none">>
NoToken == <<"none">>
NoUsers == [e \in Emails |-> NoUser]
NoPending == [email |-> "", password |-> "", user |-> NoUser]
NoReply == [route |-> "", status |-> 0, message |-> "", token |-> NoToken,
            email |-> "", password |-> ""]

----------------------------------------------------------------------------
Init ==
    /\ ids = {"a"}
    /\ instances = [i \in AllIds |-> None]
    /\ handle = [h \in Handles |-> NoHandle]
    /\ client = [h \in Handles |-> "new"]
    /\ sessionStore = {}
    /\ db = [i \in AllIds |-> NoRow]
    /\ events = <<>>
    /\ tasks = {}
    /\ hist = <<>>
    /\ calls = [h \in Handles |-> NoCalls]
    /\ outcome = NoOutcome
    /\ number = <<>>
    /\ chatId = Undefined
    /\ passed = NotPassed
    /\ delivered = {}
    /\ users = NoUsers
    /\ pending = NoPending
    /\ reply = NoReply

----------------------------------------------------------------------------
\* connect

\* createInstance: the registry with a new WAInstance (new client, status
\* 'disconnected') under the id.
CreateInstance(i) == [handle EXCEPT ![FreshHandle] = NewInstance(i)]

\* createInstance that puts a new handle over the one registered.
CreateInstanceReplaces(i) ==
    /\ CanStart
    /\ Started("createInstance", i, FreshHandle)
    /\ handle' = CreateInstance(i)
    /\ instances' = [instances EXCEPT ![i] = FreshHandle]
    /\ ReturnsNow("createInstance", i, "ok", "", FreshHandle, StatusOf(i))
    /\ UNCHANGED <<ids, client, sessionStore, db, events, tasks, calls>>

\* createInstance(instanceId) called for itself: it throws when the registry
\* has the id, and otherwise registers a new handle and returns it.
CreateInstanceCall(i) ==
    /\ CanStart
    /\ Started("createInstance", i, IF instances[i] = None THEN FreshHandle ELSE instances[i])
    /\ IF instances[i] # None
       THEN /\ ReturnsNow("createInstance", i, "error", "AlreadyExists", instances[i], StatusOf(i))
            /\ UNCHANGED <<instances, handle>>
       ELSE /\ handle' = CreateInstance(i)
            /\ instances' = [instances EXCEPT ![i] = FreshHandle]
            /\ ReturnsNow("createInstance", i, "ok", "", FreshHandle, "none")
    /\ UNCHANGED <<ids, client, sessionStore, db, events, tasks, calls>>

\* connect without its test of the status.
AlreadyConnectedNever(status) == FALSE

\* `if (instance.status === 'connected') return instance;`
AlreadyConnected(status) == status = "connected"

\* connect(instanceId) up to `await instance.client.initialize()`.  The await
\* of createInstance is of a promise already resolved: connect resumes in the
\* same turn of the event loop, before any notification, completion or request
\* is handled, so the segment is one step.  initialize() (LocalAuth) creates
\* the credential directory of the instance.
Connect(i) ==
    LET h == IF instances[i] = None THEN FreshHandle ELSE instances[i]
        got == IF instances[i] = None THEN CreateInstance(i) ELSE handle
    IN  /\ CanStart
        /\ Started("connect", i, h)
        /\ instances' = [instances EXCEPT ![i] = h]
        /\ IF AlreadyConnected(got[h].status)
           THEN /\ handle' = got
                /\ ReturnsNow("connect", i, "ok", "", h, StatusOf(i))
                /\ UNCHANGED <<client, sessionStore, calls, tasks>>
           ELSE /\ handle' = [got EXCEPT ![h].status = "connecting"]
                /\ calls' = [calls EXCEPT ![h].initialize = @ + 1]
                /\ client' = [client EXCEPT ![h] = "started"]
                /\ sessionStore' = sessionStore \cup {i}
                /\ tasks' = tasks \cup {Task("connect", i, h, "initialize", Undefined)}
                /\ Silent
        /\ UNCHANGED <<ids, db, events>>

\* connect that takes the instance down when initialize fails.
ConnectInitializedResets(t, ok) ==
    /\ t.op = "connect" /\ t.pc = "initialize"
    /\ tasks' = tasks \ {t}
    /\ IF ok
       THEN Returns(t, "ok", "") /\ UNCHANGED handle
       ELSE /\ Returns(t, "error", "InitializeFailed")
            /\ handle' = [handle EXCEPT ![t.h].status = "disconnected"]
    /\ UNCHANGED <<ids, instances, client, sessionStore, db, events, hist, calls>>

\* client.initialize() resolved or rejected.
ConnectInitialized(t, ok) ==
    /\ t.op = "connect" /\ t.pc = "initialize"
    /\ tasks' = tasks \ {t}
    /\ IF ok THEN Returns(t, "ok", "") ELSE Returns(t, "error", "InitializeFailed")
    /\ UNCHANGED <<ids, instances, handle, client, sessionStore, db, events, hist, calls>>

----------------------------------------------------------------------------
\* updateInstanceStatus: prisma.instance.update resolved (the row takes the
\* status) or rejected (caught and logged; the row keeps what it held).
UpdateInstanceStatus(i, status, ok) ==
    db' = IF ok THEN [db EXCEPT ![i].status = status] ELSE db

----------------------------------------------------------------------------
\* disconnect

\* disconnect that tolerates an unknown id, as deleteInstance does.
DisconnectTolerant(i) ==
    /\ CanStart
    /\ Started("disconnect", i, instances[i])
    /\ IF instances[i] = None
       THEN /\ ReturnsNow("disconnect", i, "ok", "", None, "none")
            /\ UNCHANGED <<tasks, calls>>
       ELSE /\ calls' = [calls EXCEPT ![instances[i]].destroy = @ + 1]
            /\ tasks' = tasks \cup {Task("disconnect", i, instances[i], "destroy", Undefined)}
            /\ Silent
    /\ UNCHANGED <<ids, instances, handle, client, sessionStore, db, events>>

\* disconnect(instanceId) up to `await instance.client.destroy()`.
Disconnect(i) ==
    /\ CanStart
    /\ Started("disconnect", i, instances[i])
    /\ IF instances[i] = None
       THEN /\ ReturnsNow("disconnect", i, "error", "NotFound", None, "none")
            /\ UNCHANGED <<tasks, calls>>
       ELSE /\ calls' = [calls EXCEPT ![instances[i]].destroy = @ + 1]
            /\ tasks' = tasks \cup {Task("disconnect", i, instances[i], "destroy", Undefined)}
            /\ Silent
    /\ UNCHANGED <<ids, instances, handle, client, sessionStore, db, events>>

\* disconnect that also removes the session files, as logout does.
DisconnectDestroyedWipes(t, ok) ==
    /\ t.op = "disconnect" /\ t.pc = "destroy"
    /\ IF ok
       THEN /\ client' = [client EXCEPT ![t.h] = "destroyed"]
            /\ handle' = [handle EXCEPT ![t.h].status = "disconnected"]
            /\ sessionStore' = sessionStore \ {t.id}
            /\ tasks' = At(t, "persist")
            /\ Silent
       ELSE /\ tasks' = tasks \ {t}
            /\ Returns(t, "error", "TeardownFailed")
            /\ UNCHANGED <<client, handle, sessionStore>>
    /\ UNCHANGED <<ids, instances, db, events, hist, calls>>

\* client.destroy() resolved: status 'disconnected', then the status update is
\* awaited; or it rejected and disconnect throws.
DisconnectDestroyed(t, ok) ==
    /\ t.op = "disconnect" /\ t.pc = "destroy"
    /\ IF ok
       THEN /\ client' = [client EXCEPT ![t.h] = "destroyed"]
            /\ handle' = [handle EXCEPT ![t.h].status = "disconnected"]
            /\ tasks' = At(t, "persist")
            /\ Silent
       ELSE /\ tasks' = tasks \ {t}
            /\ Returns(t, "error", "TeardownFailed")
            /\ UNCHANGED <<client, handle>>
    /\ UNCHANGED <<ids, instances, sessionStore, db, events, hist, calls>>

DisconnectPersisted(t, ok) ==
    /\ t.op = "disconnect" /\ t.pc = "persist"
    /\ UpdateInstanceStatus(t.id, "DISCONNECTED", ok)
    /\ tasks' = tasks \ {t}
    /\ Returns(t, "ok", Settled(ok))
    /\ UNCHANGED <<ids, instances, handle, client, sessionStore, events, hist, calls>>

----------------------------------------------------------------------------
\* logout

\* logout(instanceId) up to `await instance.client.logout()`.
Logout(i) ==
    /\ CanStart
    /\ Started("logout", i, instances[i])
    /\ IF instances[i] = None
       THEN /\ ReturnsNow("logout", i, "error", "NotFound", None, "none")
            /\ UNCHANGED <<tasks, calls>>
       ELSE /\ calls' = [calls EXCEPT ![instances[i]].logout = @ + 1]
            /\ tasks' = tasks \cup {Task("logout", i, instances[i], "logout", Undefined)}
            /\ Silent
    /\ UNCHANGED <<ids, instances, handle, client, sessionStore, db, events>>

\* client.logout() resolved: client.destroy() is called and awaited; or it
\* rejected and logout throws.
LogoutLoggedOut(t, ok) ==
    /\ t.op = "logout" /\ t.pc = "logout"
    /\ IF ok
       THEN /\ calls' = [calls EXCEPT ![t.h].destroy = @ + 1]
            /\ tasks' = At(t, "destroy")
            /\ Silent
       ELSE /\ tasks' = tasks \ {t}
            /\ Returns(t, "error", "TeardownFailed")
            /\ UNCHANGED calls
    /\ UNCHANGED <<ids, instances, handle, client, sessionStore, db, events, hist>>

\* logout that deletes the registry entry and leaves the session files.
LogoutCleanupKeepsFiles(i) ==
    /\ sessionStore' = sessionStore
    /\ instances' = [instances EXCEPT ![i] = None]

\* logout: the session files of the id are removed and the registry entry of
\* the id is deleted.
LogoutCleanup(i) ==
    /\ sessionStore' = sessionStore \ {i}
    /\ instances' = [instances EXCEPT ![i] = None]

\* client.destroy() resolved: status 'disconnected', the cleanup, then the
\* status update is awaited; or it rejected and logout throws.
LogoutDestroyed(t, ok) ==
    /\ t.op = "logout" /\ t.pc = "destroy"
    /\ IF ok
       THEN /\ client' = [client EXCEPT ![t.h] = "destroyed"]
            /\ handle' = [handle EXCEPT ![t.h].status = "disconnected"]
            /\ LogoutCleanup(t.id)
            /\ tasks' = At(t, "persist")
            /\ Silent
       ELSE /\ tasks' = tasks \ {t}
            /\ Returns(t, "error", "TeardownFailed")
            /\ UNCHANGED <<client, handle, sessionStore, instances>>
    /\ UNCHANGED <<ids, db, events, hist, calls>>

LogoutPersisted(t, ok) ==
    /\ t.op = "logout" /\ t.pc = "persist"
    /\ UpdateInstanceStatus(t.id, "DISCONNECTED", ok)
    /\ tasks' = tasks \ {t}
    /\ Returns(t, "ok", Settled(ok))
    /\ UNCHANGED <<ids, instances, handle, client, sessionStore, events, hist, calls>>

----------------------------------------------------------------------------
\* deleteInstance

\* A cleanup that removes the whole sessions directory.
DeleteCleanupWipesAll(i) ==
    /\ sessionStore' = {}
    /\ instances' = [instances EXCEPT ![i] = None]

\* The tail of deleteInstance: remove the session files, delete the entry.
DeleteCleanup(i) ==
    /\ sessionStore' = sessionStore \ {i}
    /\ instances' = [instances EXCEPT ![i] = None]

\* deleteInstance that rejects an unknown id, as disconnect and logout do.
DeleteInstanceStrict(i) ==
    /\ CanStart
    /\ Started("delete", i, instances[i])
    /\ IF instances[i] = None
       THEN /\ ReturnsNow("delete", i, "error", "NotFound", None, "none")
            /\ UNCHANGED <<tasks, calls, sessionStore, instances>>
       ELSE /\ calls' = [calls EXCEPT ![instances[i]].destroy = @ + 1]
            /\ tasks' = tasks \cup {Task("delete", i, instances[i], "destroy", Undefined)}
            /\ Silent
            /\ UNCHANGED <<sessionStore, instances>>
    /\ UNCHANGED <<ids, handle, client, db, events>>

\* deleteInstance(instanceId): with a registered handle, up to
\* `await instance.client.destroy()`; without one, to its end.
DeleteInstance(i) ==
    /\ CanStart
    /\ Started("delete", i, instances[i])
    /\ IF instances[i] = None
       THEN /\ DeleteCleanup(i)
            /\ ReturnsNow("delete", i, "ok", "", None, "none")
            /\ UNCHANGED <<tasks, calls>>
       ELSE /\ calls' = [calls EXCEPT ![instances[i]].destroy = @ + 1]
            /\ tasks' = tasks \cup {Task("delete", i, instances[i], "destroy", Undefined)}
            /\ Silent
            /\ UNCHANGED <<sessionStore, instances>>
    /\ UNCHANGED <<ids, handle, client, db, events>>

\* deleteInstance without the try/catch around destroy.
DeleteDestroyedThrows(t, ok) ==
    /\ t.op = "delete" /\ t.pc = "destroy"
    /\ IF ok
       THEN /\ client' = [client EXCEPT ![t.h] = "destroyed"]
            /\ DeleteCleanup(t.id)
            /\ Returns(t, "ok", "")
       ELSE /\ Returns(t, "error", "TeardownFailed")
            /\ UNCHANGED <<client, sessionStore, instances>>
    /\ tasks' = tasks \ {t}
    /\ UNCHANGED <<ids, handle, db, events, hist, calls>>

\* deleteInstance that records the instance as DISCONNECTED, as logout does.
DeleteDestroyedPersists(t, ok) ==
    /\ t.op = "delete" /\ t.pc = "destroy"
    /\ client' = IF ok THEN [client EXCEPT ![t.h] = "destroyed"] ELSE client
    /\ DeleteCleanup(t.id)
    /\ db' = [db EXCEPT ![t.id].status = "DISCONNECTED"]
    /\ tasks' = tasks \ {t}
    /\ Returns(t, "ok", IF ok THEN "" ELSE "TeardownFailed")
    /\ UNCHANGED <<ids, handle, events, hist, calls>>

\* client.destroy() resolved, or rejected and the error is ignored (the outcome
\* keeps it in err, beside the result the caller gets).
DeleteDestroyed(t, ok) ==
    /\ t.op = "delete" /\ t.pc = "destroy"
    /\ client' = IF ok THEN [client EXCEPT ![t.h] = "destroyed"] ELSE client
    /\ DeleteCleanup(t.id)
    /\ tasks' = tasks \ {t}
    /\ Returns(t, "ok", IF ok THEN "" ELSE "TeardownFailed")
    /\ UNCHANGED <<ids, handle, db, events, hist, calls>>

----------------------------------------------------------------------------
\* sendText

\* getClient: the client of the registered handle, whatever its status.
GetClient(i) == instances[i]

\* sendText(instanceId, to, text) up to `await client.sendMessage(...)`.
SendText(i) ==
    /\ CanStart
    /\ Started("sendText", i, GetClient(i))
    /\ IF GetClient(i) = None
       THEN /\ ReturnsNow("sendText", i, "error", "NotConnected", None, "none")
            /\ UNCHANGED <<tasks, calls>>
       ELSE /\ calls' = [calls EXCEPT ![GetClient(i)].sendMessage = @ + 1]
            /\ tasks' = tasks \cup {Task("sendText", i, GetClient(i), "sendMessage", Undefined)}
            /\ Silent
    /\ UNCHANGED <<ids, instances, handle, client, sessionStore, db, events>>

\* sendText behind one queue for all instances: a send returns only when no
\* send invoked before it is still waiting.
SendTextSentInTurn(t, ok) ==
    /\ t.op = "sendText" /\ t.pc = "sendMessage"
    /\ \A u \in tasks : u.op = "sendText" => t.n <= u.n
    /\ tasks' = tasks \ {t}
    /\ IF ok THEN Returns(t, "ok", "") ELSE Returns(t, "error", "DeliveryFailed")
    /\ UNCHANGED <<ids, instances, handle, client, sessionStore, db, events, hist, calls>>

\* sendText that takes a failed delivery for a lost session.
SendTextSentMarksDown(t, ok) ==
    /\ t.op = "sendText" /\ t.pc = "sendMessage"
    /\ tasks' = tasks \ {t}
    /\ IF ok
       THEN Returns(t, "ok", "") /\ UNCHANGED handle
       ELSE /\ Returns(t, "error", "DeliveryFailed")
            /\ handle' = [handle EXCEPT ![t.h].status = "disconnected"]
    /\ UNCHANGED <<ids, instances, client, sessionStore, db, events, hist, calls>>

\* client.sendMessage resolved (the formatted message is returned) or rejected
\* (the client's error is thrown on).
SendTextSent(t, ok) ==
    /\ t.op = "sendText" /\ t.pc = "sendMessage"
    /\ tasks' = tasks \ {t}
    /\ IF ok THEN Returns(t, "ok", "") ELSE Returns(t, "error", "DeliveryFailed")
    /\ UNCHANGED <<ids, instances, handle, client, sessionStore, db, events, hist, calls>>

----------------------------------------------------------------------------
\* The getters: they read the registry and return in the caller's turn.

\* getStatus(instanceId): the status of the registered handle, or 'not_found'.
GetStatus(i) ==
    /\ CanStart
    /\ Started("getStatus", i, instances[i])
    /\ ReturnsNow("getStatus", i, IF instances[i] = None THEN "not_found" ELSE StatusOf(i),
                  "", instances[i], StatusOf(i))
    /\ UNCHANGED <<ids, instances, handle, client, sessionStore, db, events, tasks, calls>>

\* getQRCode(instanceId): the two challenge fields of the registered handle
\* (res tells whether a challenge was among them).
GetQRCode(i) ==
    /\ CanStart
    /\ Started("getQRCode", i, instances[i])
    /\ ReturnsNow("getQRCode", i,
                  IF instances[i] # None /\ handle[instances[i]].qrCode # Undefined
                  THEN "challenge" ELSE "empty",
                  "", instances[i], StatusOf(i))
    /\ UNCHANGED <<ids, instances, handle, client, sessionStore, db, events, tasks, calls>>

----------------------------------------------------------------------------
\* setupEventHandlers: the handlers of one handle's client.  The client emits
\* while it runs: initialize() was called and no destroy() has resolved since.

Emits(h) == CanStart /\ client[h] = "started"

Notified(kind, h) == Started(kind, handle[h].id, h)

\* client.on('qr'), up to `await QRCode.toDataURL(qr)`.
OnQr(h) ==
    /\ Emits(h)
    /\ Notified("qr", h)
    /\ handle' = [handle EXCEPT ![h].status = "qr", ![h].qrCode = Qr(Len(hist) + 1)]
    /\ tasks' = tasks \cup {Task("qr", handle[h].id, h, "render", Qr(Len(hist) + 1))}
    /\ Silent
    /\ UNCHANGED <<ids, instances, client, sessionStore, db, events, calls>>

\* The rendering resolved: qrCodeBase64 is stored, 'qr' is published with the
\* handler's raw challenge and the stored rendering, then the status update
\* is awaited.
OnQrRendered(t) ==
    /\ t.op = "qr" /\ t.pc = "render"
    /\ handle' = [handle EXCEPT ![t.h].qrCodeBase64 = ToDataURL(t.qr)]
    /\ Emit("qr", t, t.qr, handle'[t.h].qrCodeBase64)
    /\ tasks' = At(t, "persist")
    /\ Silent
    /\ UNCHANGED <<ids, instances, client, sessionStore, db, hist, calls>>

OnQrPersisted(t, ok) ==
    /\ t.op = "qr" /\ t.pc = "persist"
    /\ UpdateInstanceStatus(t.id, "CONNECTING", ok)
    /\ tasks' = tasks \ {t}
    /\ Logs(t, ok)
    /\ UNCHANGED <<ids, instances, handle, client, sessionStore, events, hist, calls>>

\* client.on('ready'), up to `await prisma.instance.update(...)`.
OnReady(h) ==
    /\ Emits(h)
    /\ Notified("ready", h)
    /\ handle' = [handle EXCEPT ![h].status = "connected",
                                ![h].qrCode = Undefined,
                                ![h].qrCodeBase64 = Undefined]
    /\ tasks' = tasks \cup {Task("ready", handle[h].id, h, "persist", Undefined)}
    /\ Silent
    /\ UNCHANGED <<ids, instances, client, sessionStore, db, events, calls>>

\* The update resolved: the row holds CONNECTED and the account, and 'ready'
\* is published; or it rejected: the handler's promise rejects there.
OnReadyPersisted(t, ok) ==
    /\ t.op = "ready" /\ t.pc = "persist"
    /\ IF ok
       THEN /\ db' = [db EXCEPT ![t.id] = [status |-> "CONNECTED",
                                           waNumber |-> WidUser(t.id),
                                           waName |-> PushName(t.id)]]
            /\ Emit("ready", t, Undefined, Undefined)
            /\ Silent
       ELSE /\ UNCHANGED <<db, events>>
            /\ Returns(t, "error", Settled(ok))
    /\ tasks' = tasks \ {t}
    /\ UNCHANGED <<ids, instances, handle, client, sessionStore, hist, calls>>

\* A handler that drops the registry entry when the session goes down.
OnDownRemoves(kind, h) ==
    /\ Emits(h)
    /\ Notified(kind, h)
    /\ handle' = [handle EXCEPT ![h].status = "disconnected"]
    /\ instances' = [instances EXCEPT ![handle[h].id] = None]
    /\ tasks' = tasks \cup {Task(kind, handle[h].id, h, "persist", Undefined)}
    /\ Silent
    /\ UNCHANGED <<ids, client, sessionStore, db, events, calls>>

\* client.on('auth_failure') and client.on('disconnected'), up to
\* `await this.updateInstanceStatus(id, 'DISCONNECTED')`.
OnDown(kind, h) ==
    /\ Emits(h)
    /\ Notified(kind, h)
    /\ handle' = [handle EXCEPT ![h].status = "disconnected"]
    /\ tasks' = tasks \cup {Task(kind, handle[h].id, h, "persist", Undefined)}
    /\ Silent
    /\ UNCHANGED <<ids, instances, client, sessionStore, db, events, calls>>

\* A handler that awaits the repository without the catch, as 'ready' does.
OnDownPersistedThrows(t, ok) ==
    /\ t.op \in {"auth_failure", "disconnected"} /\ t.pc = "persist"
    /\ UpdateInstanceStatus(t.id, "DISCONNECTED", ok)
    /\ IF ok
       THEN Emit(t.op, t, Undefined, Undefined) /\ Silent
       ELSE UNCHANGED events /\ Returns(t, "error", Settled(ok))
    /\ tasks' = tasks \ {t}
    /\ UNCHANGED <<ids, instances, handle, client, sessionStore, hist, calls>>

\* The status update settled; the event is published either way.
OnDownPersisted(t, ok) ==
    /\ t.op \in {"auth_failure", "disconnected"} /\ t.pc = "persist"
    /\ UpdateInstanceStatus(t.id, "DISCONNECTED", ok)
    /\ Emit(t.op, t, Undefined, Undefined)
    /\ tasks' = tasks \ {t}
    /\ Logs(t, ok)
    /\ UNCHANGED <<ids, instances, handle, client, sessionStore, hist, calls>>

\* formatMessage reads msg.id._serialized first: a message without an id
\* makes it throw a TypeError.
FormatMessage(wellFormed) == IF wellFormed THEN "formatted" ELSE "TypeError"

\* client.on('message'): a listener without await.  'message' is published
\* with the formatted message; when formatMessage throws, the listener throws
\* into the client's emit and nothing is published.
OnMessage(h, wellFormed) ==
    /\ Emits(h)
    /\ Notified("message", h)
    /\ IF FormatMessage(wellFormed) = "formatted"
       THEN /\ Emit("message", Task("message", handle[h].id, h, "", Undefined),
                    Undefined, Undefined)
            /\ Silent
       ELSE /\ ReturnsNow("message", handle[h].id, "error", "MalformedPayload", h, "")
            /\ UNCHANGED events
    /\ UNCHANGED <<ids, instances, handle, client, sessionStore, db, tasks, calls>>

\* client.on('message_create'), client.on('message_ack') and
\* client.on('message_revoke_everyone'): the payload is built from
\* msg.id._serialized (directly or in formatMessage) inside the emit call.
OnPayload(kind, h, wellFormed) ==
    /\ Emits(h)
    /\ Notified(kind, h)
    /\ IF FormatMessage(wellFormed) = "formatted"
       THEN /\ Emit(kind, Task(kind, handle[h].id, h, "", Undefined), Undefined, Undefined)
            /\ Silent
       ELSE /\ ReturnsNow(kind, handle[h].id, "error", "MalformedPayload", h, "")
            /\ UNCHANGED events
    /\ UNCHANGED <<ids, instances, handle, client, sessionStore, db, tasks, calls>>

\* A forwarder that publishes every group notification as 'group_update'.
OnForwardAsUpdate(kind, h) ==
    /\ Emits(h)
    /\ Notified(kind, h)
    /\ Emit(IF kind = "call" THEN kind ELSE "group_update",
            Task(kind, handle[h].id, h, "", Undefined), Undefined, Undefined)
    /\ Silent
    /\ UNCHANGED <<ids, instances, handle, client, sessionStore, db, tasks, calls>>

\* client.on('group_join'), client.on('group_leave'), client.on('group_update')
\* and client.on('call'): the notification is published as it came.
OnForward(kind, h) ==
    /\ Emits(h)
    /\ Notified(kind, h)
    /\ Emit(kind, Task(kind, handle[h].id, h, "", Undefined), Undefined, Undefined)
    /\ Silent
    /\ UNCHANGED <<ids, instances, handle, client, sessionStore, db, tasks, calls>>

----------------------------------------------------------------------------
Next ==
    \/ \E i \in ids : CreateInstanceCall(i) /\ UNCHANGED fvars
    \/ \E i \in ids : Connect(i) /\ UNCHANGED fvars
    \/ \E t \in tasks, ok \in BOOLEAN : ConnectInitialized(t, ok) /\ UNCHANGED fvars
    \/ \E i \in ids : Disconnect(i) /\ UNCHANGED fvars
    \/ \E t \in tasks, ok \in BOOLEAN : DisconnectDestroyed(t, ok) /\ UNCHANGED fvars
    \/ \E t \in tasks, ok \in BOOLEAN : DisconnectPersisted(t, ok) /\ UNCHANGED fvars
    \/ \E i \in ids : Logout(i) /\ UNCHANGED fvars
    \/ \E t \in tasks, ok \in BOOLEAN : LogoutLoggedOut(t, ok) /\ UNCHANGED fvars
    \/ \E t \in tasks, ok \in BOOLEAN : LogoutDestroyed(t, ok) /\ UNCHANGED fvars
    \/ \E t \in tasks, ok \in BOOLEAN : LogoutPersisted(t, ok) /\ UNCHANGED fvars
    \/ \E i \in ids : DeleteInstance(i) /\ UNCHANGED fvars
    \/ \E t \in tasks, ok \in BOOLEAN : DeleteDestroyed(t, ok) /\ UNCHANGED fvars
    \/ \E i \in ids : SendText(i) /\ UNCHANGED fvars
    \/ \E t \in tasks, ok \in BOOLEAN : SendTextSent(t, ok) /\ UNCHANGED fvars
    \/ \E i \in ids : GetStatus(i) /\ UNCHANGED fvars
    \/ \E i \in ids : GetQRCode(i) /\ UNCHANGED fvars
    \/ \E h \in Allocated : OnQr(h) /\ UNCHANGED fvars
    \/ \E t \in tasks : OnQrRendered(t) /\ UNCHANGED fvars
    \/ \E t \in tasks, ok \in BOOLEAN : OnQrPersisted(t, ok) /\ UNCHANGED fvars
    \/ \E h \in Allocated : OnReady(h) /\ UNCHANGED fvars
    \/ \E t \in tasks, ok \in BOOLEAN : OnReadyPersisted(t, ok) /\ UNCHANGED fvars
    \/ \E h \in Allocated : OnDown("auth_failure", h) /\ UNCHANGED fvars
    \/ \E h \in Allocated : OnDown("disconnected", h) /\ UNCHANGED fvars
    \/ \E t \in tasks, ok \in BOOLEAN : OnDownPersisted(t, ok) /\ UNCHANGED fvars
    \/ \E h \in Allocated, wellFormed \in BOOLEAN : OnMessage(h, wellFormed) /\ UNCHANGED fvars

Spec == Init /\ [][Next]_<<vars, fvars>>

----------------------------------------------------------------------------
\* formatNumber

\* A string is the sequence of its characters.
Digits == {"0", "1", "2", "3", "4", "5", "6", "7", "8", "9"}

Includes(str, c) == \E k \in DOMAIN str : str[k] = c

\* A pattern that lets the sign of an international number through.
IsDigitOrSign(c) == c \in Digits \cup {"+"}

IsDigit(c) == c \in Digits

\* number.replace(/\D/g, ''): the characters that are digits, in order.
Cleaned(str) == SelectSeq(str, IsDigit)

UserSuffix == <<"@", "c", ".", "u", "s">>

GroupSuffix == <<"@", "g", ".", "u", "s">>

FormatNumber(str) ==
    IF ~Includes(Cleaned(str), "@")
    THEN IF Includes(Cleaned(str), "-")
         THEN Cleaned(str) \o GroupSuffix
         ELSE Cleaned(str) \o UserSuffix
    ELSE Cleaned(str)

\* The characters addresses are drawn from.
Alphabet == {"5", "1", "-", "@", "+", " "}

RECURSIVE Strings(_)
Strings(n) ==
    IF n = 0 THEN {<<>>}
    ELSE Strings(n - 1) \cup
         {Append(str, c) : str \in {x \in Strings(n - 1) : Len(x) = n - 1}, c \in Alphabet}

\* Addresses in full: a group's, a user's, a bare number.
Examples ==
    {<<"1", "2", "0", "3", "6", "3", "-", "1", "2", "3">> \o GroupSuffix,
     <<"5", "5", "1", "1", "9">> \o UserSuffix,
     <<"5", "5", "1", "1", "9">>,
     <<"+", "5", "5", " ", "1", "1", " ", "9", "9", "9", "9", "9", "-", "9", "9", "9", "9">>}

\* The addresses callers give: never empty (the routes require min(1)).
Numbers == (Strings(MaxLen) \ {<<>>}) \cup Examples

InitFormat ==
    /\ ids = {"a"}
    /\ instances = [i \in AllIds |-> None]
    /\ handle = [h \in Handles |-> NoHandle]
    /\ client = [h \in Handles |-> "new"]
    /\ sessionStore = {}
    /\ db = [i \in AllIds |-> NoRow]
    /\ events = <<>>
    /\ tasks = {}
    /\ hist = <<>>
    /\ calls = [h \in Handles |-> NoCalls]
    /\ outcome = NoOutcome
    /\ number \in Numbers
    /\ chatId = Undefined
    /\ passed = NotPassed
    /\ delivered = {}
    /\ users = NoUsers
    /\ pending = NoPending
    /\ reply = NoReply

\* One call of formatNumber.
FormatNumberCall ==
    /\ chatId = Undefined
    /\ chatId' = FormatNumber(number)
    /\ UNCHANGED <<number, passed, delivered>>
    /\ UNCHANGED avars
    /\ UNCHANGED vars

\* The facade methods that take an address, by what they hand to the client:
\* sendText, sendContact, getContactById, getChatById and createGroup call
\* formatNumber on it; isRegisteredUser and getGroupInfo pass it as given.
Sites == {"sendText", "sendContact", "getContactById", "getChatById", "createGroup",
          "isRegisteredUser", "getGroupInfo"}

Passes(site, str) ==
    IF site \in {"isRegisteredUser", "getGroupInfo"} THEN str ELSE FormatNumber(str)

\* One call of a facade method with the address, up to its call of the client.
FacadeCall(site) ==
    /\ passed = NotPassed
    /\ passed' = [site |-> site, arg |-> Passes(site, number)]
    /\ UNCHANGED <<number, chatId, delivered>>
    /\ UNCHANGED avars
    /\ UNCHANGED vars

\* The next address.
FormatNumberNext ==
    /\ chatId # Undefined \/ passed # NotPassed
    /\ \E str \in Examples : number' = str
    /\ chatId' = Undefined
    /\ passed' = NotPassed
    /\ UNCHANGED delivered
    /\ UNCHANGED avars
    /\ UNCHANGED vars

NextFormat ==
    \/ FormatNumberCall
    \/ \E site \in Sites : FacadeCall(site)
    \/ FormatNumberNext

SpecFormat == InitFormat /\ [][NextFormat]_<<vars, fvars>>

----------------------------------------------------------------------------
\* The bus: WhatsAppManager is an EventEmitter and publishes with this.emit,
\* which calls the listeners of the event one after the other, in the order
\* they were registered, in the caller's own turn; a listener that throws ends
\* the emit, which throws on to the handler that called it.

Subscribers == 1..MaxSubs

\* The listeners an emit calls when those of `faulty` throw: all up to the
\* first that throws.
Reached(faulty) == {s \in Subscribers : \A f \in faulty : s <= f}

\* client.on('authenticated'): a listener without await that publishes
\* 'authenticated'.
OnAuthenticated(h, faulty) ==
    /\ Emits(h)
    /\ Notified("authenticated", h)
    /\ Emit("authenticated", Task("authenticated", handle[h].id, h, "", Undefined),
            Undefined, Undefined)
    /\ delivered' = delivered \cup {<<Len(hist) + 1, s>> : s \in Reached(faulty)}
    /\ IF faulty = {}
       THEN Silent
       ELSE ReturnsNow("authenticated", handle[h].id, "error", "SubscriberFailed", h, "")
    /\ UNCHANGED <<ids, instances, handle, client, sessionStore, db, tasks, calls>>
    /\ UNCHANGED <<number, chatId, passed>>
    /\ UNCHANGED avars

NextBus ==
    \/ \E i \in ids : Connect(i) /\ UNCHANGED fvars
    \/ \E t \in tasks, ok \in BOOLEAN : ConnectInitialized(t, ok) /\ UNCHANGED fvars
    \/ \E i \in ids : Disconnect(i) /\ UNCHANGED fvars
    \/ \E t \in tasks, ok \in BOOLEAN : DisconnectDestroyed(t, ok) /\ UNCHANGED fvars
    \/ \E t \in tasks, ok \in BOOLEAN : DisconnectPersisted(t, ok) /\ UNCHANGED fvars
    \/ \E h \in Allocated, faulty \in SUBSET Subscribers : OnAuthenticated(h, faulty)

SpecBus == Init /\ [][NextBus]_<<vars, fvars>>

----------------------------------------------------------------------------
\* Two connected instances.  The manager after connect('a'), connect('b') and
\* a 'ready' of each, every command and handler run to its end: both ids
\* registered with their own handle and running client, status 'connected',
\* their session files written and their rows CONNECTED.  hist, events and
\* outcome record what happens from here on.
Connected(i) == [NewInstance(i) EXCEPT !.status = "connected"]

InitSend ==
    /\ ids = {"a", "b"}
    /\ instances = [i \in AllIds |-> IF i = "a" THEN 1 ELSE 2]
    /\ handle = [h \in Handles |-> IF h = 1 THEN Connected("a")
                                    ELSE IF h = 2 THEN Connected("b") ELSE NoHandle]
    /\ client = [h \in Handles |-> IF h \in {1, 2} THEN "started" ELSE "new"]
    /\ sessionStore = {"a", "b"}
    /\ db = [i \in AllIds |-> [status |-> "CONNECTED", waNumber |-> WidUser(i),
                                waName |-> PushName(i)]]
    /\ events = <<>>
    /\ tasks = {}
    /\ hist = <<>>
    /\ calls = [h \in Handles |-> IF h \in {1, 2} THEN [NoCalls EXCEPT !.initialize = 1]
                                   ELSE NoCalls]
    /\ outcome = NoOutcome
    /\ number = <<>>
    /\ chatId = Undefined
    /\ passed = NotPassed
    /\ delivered = {}
    /\ users = NoUsers
    /\ pending = NoPending
    /\ reply = NoReply

NextSend ==
    \/ \E i \in ids : SendText(i) /\ UNCHANGED fvars
    \/ \E t \in tasks, ok \in BOOLEAN : SendTextSent(t, ok) /\ UNCHANGED fvars

SpecSend == InitSend /\ [][NextSend]_<<vars, fvars>>

----------------------------------------------------------------------------
\* The thirteen handlers of setupEventHandlers on the clients connect starts.
Payloads == {"message_create", "message_ack", "message_revoke_everyone"}
Forwards == {"group_join", "group_leave", "group_update", "call"}

NextEvents ==
    \/ \E i \in ids : Connect(i) /\ UNCHANGED fvars
    \/ \E t \in tasks, ok \in BOOLEAN : ConnectInitialized(t, ok) /\ UNCHANGED fvars
    \/ \E h \in Allocated : OnQr(h) /\ UNCHANGED fvars
    \/ \E t \in tasks : OnQrRendered(t) /\ UNCHANGED fvars
    \/ \E t \in tasks, ok \in BOOLEAN : OnQrPersisted(t, ok) /\ UNCHANGED fvars
    \/ \E h \in Allocated : OnReady(h) /\ UNCHANGED fvars
    \/ \E t \in tasks, ok \in BOOLEAN : OnReadyPersisted(t, ok) /\ UNCHANGED fvars
    \/ \E h \in Allocated : OnAuthenticated(h, {})
    \/ \E h \in Allocated : OnDown("auth_failure", h) /\ UNCHANGED fvars
    \/ \E h \in Allocated : OnDown("disconnected", h) /\ UNCHANGED fvars
    \/ \E t \in tasks, ok \in BOOLEAN : OnDownPersisted(t, ok) /\ UNCHANGED fvars
    \/ \E h \in Allocated, wellFormed \in BOOLEAN : OnMessage(h, wellFormed) /\ UNCHANGED fvars
    \/ \E k \in Payloads, h \in Allocated, wellFormed \in BOOLEAN :
          OnPayload(k, h, wellFormed) /\ UNCHANGED fvars
    \/ \E k \in Forwards, h \in Allocated : OnForward(k, h) /\ UNCHANGED fvars

SpecEvents == Init /\ [][NextEvents]_<<vars, fvars>>

----------------------------------------------------------------------------
\* The manager in front of a repository none of whose writes rejects:
\* connect, disconnect and the four handlers that write the status.
NextReliable ==
    \/ \E i \in ids : Connect(i) /\ UNCHANGED fvars
    \/ \E t \in tasks, ok \in BOOLEAN : ConnectInitialized(t, ok) /\ UNCHANGED fvars
    \/ \E i \in ids : Disconnect(i) /\ UNCHANGED fvars
    \/ \E t \in tasks, ok \in BOOLEAN : DisconnectDestroyed(t, ok) /\ UNCHANGED fvars
    \/ \E t \in tasks : DisconnectPersisted(t, TRUE) /\ UNCHANGED fvars
    \/ \E h \in Allocated : OnQr(h) /\ UNCHANGED fvars
    \/ \E t \in tasks : OnQrRendered(t) /\ UNCHANGED fvars
    \/ \E t \in tasks : OnQrPersisted(t, TRUE) /\ UNCHANGED fvars
    \/ \E h \in Allocated : OnReady(h) /\ UNCHANGED fvars
    \/ \E t \in tasks : OnReadyPersisted(t, TRUE) /\ UNCHANGED fvars
    \/ \E h \in Allocated : OnDown("auth_failure", h) /\ UNCHANGED fvars
    \/ \E h \in Allocated : OnDown("disconnected", h) /\ UNCHANGED fvars
    \/ \E t \in tasks : OnDownPersisted(t, TRUE) /\ UNCHANGED fvars

SpecReliable == Init /\ [][NextReliable]_<<vars, fvars>>

----------------------------------------------------------------------------
\* One connected instance: the manager after connect('a') and a 'ready',
\* command and handler run to their end.  hist, events and outcome record
\* what happens from here on.
InitResume ==
    /\ ids = {"a"}
    /\ instances = [i \in AllIds |-> IF i = "a" THEN 1 ELSE None]
    /\ handle = [h \in Handles |-> IF h = 1 THEN Connected("a") ELSE NoHandle]
    /\ client = [h \in Handles |-> IF h = 1 THEN "started" ELSE "new"]
    /\ sessionStore = {"a"}
    /\ db = [i \in AllIds |-> IF i = "a"
                              THEN [status |-> "CONNECTED", waNumber |-> WidUser(i),
                                    waName |-> PushName(i)]
                              ELSE NoRow]
    /\ events = <<>>
    /\ tasks = {}
    /\ hist = <<>>
    /\ calls = [h \in Handles |-> IF h = 1 THEN [NoCalls EXCEPT !.initialize = 1]
                                   ELSE NoCalls]
    /\ outcome = NoOutcome
    /\ number = <<>>
    /\ chatId = Undefined
    /\ passed = NotPassed
    /\ delivered = {}
    /\ users = NoUsers
    /\ pending = NoPending
    /\ reply = NoReply

SpecResume == InitResume /\ [][Next]_<<vars, fvars>>

\* Two connected instances, the 'ready' of the second being the latest thing
\* that happened: hist and events hold it.
InitPair ==
    /\ ids = {"a", "b"}
    /\ instances = [i \in AllIds |-> IF i = "a" THEN 1 ELSE 2]
    /\ handle = [h \in Handles |-> IF h = 1 THEN Connected("a")
                                    ELSE IF h = 2 THEN Connected("b") ELSE NoHandle]
    /\ client = [h \in Handles |-> IF h \in {1, 2} THEN "started" ELSE "new"]
    /\ sessionStore = {"a", "b"}
    /\ db = [i \in AllIds |-> [status |-> "CONNECTED", waNumber |-> WidUser(i),
                                waName |-> PushName(i)]]
    /\ events = <<[kind |-> "ready", instanceId |-> "b", n |-> 1,
                   qr |-> Undefined, qrBase64 |-> Undefined]>>
    /\ tasks = {}
    /\ hist = <<[op |-> "ready", id |-> "b", h |-> 2]>>
    /\ calls = [h \in Handles |-> IF h \in {1, 2} THEN [NoCalls EXCEPT !.initialize = 1]
                                   ELSE NoCalls]
    /\ outcome = NoOutcome
    /\ number = <<>>
    /\ chatId = Undefined
    /\ passed = NotPassed
    /\ delivered = {}
    /\ users = NoUsers
    /\ pending = NoPending
    /\ reply = NoReply

SpecPair == InitPair /\ [][Next]_<<vars, fvars>>

----------------------------------------------------------------------------
\* messages.post('/text'): the response to a sendText that returned `o`.
\* c.json answers 200 with the formatted message; whatever sendText throws is
\* caught and thrown on as HTTPException(500) with the error's message.
Ok == 200

InternalServerError == 500

PostText(o) ==
    IF o.res = "ok"
    THEN [status |-> Ok, message |-> ""]
    ELSE [status |-> InternalServerError, message |-> o.err]

----------------------------------------------------------------------------
\* POST /auth/register and POST /auth/login

BadRequest == 400
Unauthorized == 401

\* bcrypt.hash(password, 12) and bcrypt.compare(password, hash): the stored
\* value is not the password, and compare tells whether it was made from it.
Hash(password) == <<"bcrypt", password>>
Compare(password, hash) == hash = Hash(password)

\* generateToken({ userId, email, role }): a token naming the user.
Token(email) == <<"jwt", email>>

\* What a client sees of a response.
Visible(r) == [status |-> r.status, message |-> r.message, token |-> r.token]

InvalidCredentials ==
    [status |-> Unauthorized, message |-> "Invalid credentials", token |-> NoToken]

Replies(route, shown, email, password) ==
    reply' = [route |-> route, status |-> shown.status, message |-> shown.message,
              token |-> shown.token, email |-> email, password |-> password]

\* POST /auth/register with a valid body.
Register(email, password) ==
    /\ IF users[email] # NoUser
       THEN /\ Replies("register", [status |-> BadRequest,
                                    message |-> "Email already registered",
                                    token |-> NoToken], email, password)
            /\ UNCHANGED users
       ELSE /\ users' = [users EXCEPT ![email] = Hash(password)]
            /\ Replies("register", [status |-> Ok, message |-> "",
                                    token |-> Token(email)], email, password)
    /\ UNCHANGED pending
    /\ UNCHANGED <<number, chatId, passed, delivered>>
    /\ UNCHANGED vars

\* POST /auth/login with a valid body, up to the end of
\* `await prisma.user.findUnique(...)`.
Login(email, password) ==
    /\ pending = NoPending
    /\ pending' = [email |-> email, password |-> password, user |-> users[email]]
    /\ UNCHANGED <<users, reply>>
    /\ UNCHANGED <<number, chatId, passed, delivered>>
    /\ UNCHANGED vars

\* A login that tells an unknown email from a wrong password.
LoginAnswersNamesCause(req) ==
    IF req.user = NoUser
    THEN [status |-> Unauthorized, message |-> "User not found", token |-> NoToken]
    ELSE IF ~Compare(req.password, req.user)
    THEN InvalidCredentials
    ELSE [status |-> Ok, message |-> "", token |-> Token(req.email)]

\* The response of login for the row its lookup returned.
LoginAnswers(req) ==
    IF req.user = NoUser
    THEN InvalidCredentials
    ELSE IF ~Compare(req.password, req.user)
    THEN InvalidCredentials
    ELSE [status |-> Ok, message |-> "", token |-> Token(req.email)]

\* The rest of login: the test of the row, bcrypt.compare, the token.
LoginAnswered ==
    /\ pending # NoPending
    /\ Replies("login", LoginAnswers(pending), pending.email, pending.password)
    /\ pending' = NoPending
    /\ UNCHANGED users
    /\ UNCHANGED <<number, chatId, passed, delivered>>
    /\ UNCHANGED vars

NextLogin ==
    \/ \E email \in Emails, password \in Passwords : Register(email, password)
    \/ \E email \in Emails, password \in Passwords : Login(email, password)
    \/ LoginAnswered

SpecLogin == Init /\ [][NextLogin]_<<vars, fvars>>

----------------------------------------------------------------------------
\* Reading a step

\* The step invokes a command or delivers a notification.
Begins == Len(hist') = Len(hist) + 1

Begun == hist'[Len(hist')]

\* The command or handler the step belongs to.
Trigger ==
    IF Begins THEN Begun.op
    ELSE IF \E t \in tasks : t \notin tasks' THEN (CHOOSE t \in tasks : t \notin tasks').op
    ELSE "none"

Busy(h) == \E t \in tasks : t.h = h

Populated(h) == handle[h].qrCode # Undefined /\ handle[h].qrCodeBase64 # Undefined
Cleared(h) == handle[h].qrCode = Undefined /\ handle[h].qrCodeBase64 = Undefined

Kinds(seq) == [k \in DOMAIN seq |-> seq[k].op]

----------------------------------------------------------------------------
\* C1: a send invoked for an instance whose status is not 'connected'
\* (unregistered, disconnected, connecting or qr) fails with NotConnected and
\* issues no call to the protocol client.
C1_SendRequiresConnected ==
    [][\A i \in AllIds :
         (Begins /\ Begun.op = "sendText" /\ Begun.id = i /\ StatusOf(i) # "connected")
            => (outcome'.err = "NotConnected" /\ calls' = calls)]_vars

\* C2: for every registered instance none of whose handlers or commands is
\* suspended, both challenge fields are populated when the status is 'qr' and
\* both are empty when it is not.
C2_ChallengeIffAwaitingScan ==
    \A i \in AllIds :
        (instances[i] # None /\ ~Busy(instances[i]))
            => IF handle[instances[i]].status = "qr"
               THEN Populated(instances[i])
               ELSE Cleared(instances[i])

\* C3: every change of a handle's status is a row of the transition table.
\* connect() moves a new or a not connected handle to 'connecting';
\* 'qr' and 'ready' act only from 'connecting' or 'qr'; auth_failure,
\* disconnect() and logout() lead to 'disconnected'; 'disconnected' leads to
\* 'disconnected' from 'connected', 'connecting' or 'qr'.
InTable(from, trigger, to) ==
    \/ trigger = "createInstance" /\ from = "none" /\ to = "disconnected"
    \/ trigger = "connect" /\ from # "connected" /\ to = "connecting"
    \/ trigger = "qr" /\ from \in {"connecting", "qr"} /\ to = "qr"
    \/ trigger = "ready" /\ from \in {"connecting", "qr"} /\ to = "connected"
    \/ trigger \in {"auth_failure", "disconnect", "logout"} /\ to = "disconnected"
    \/ trigger = "disconnected" /\ from \in {"connected", "connecting", "qr"}
                                /\ to = "disconnected"

C3_TransitionTable ==
    [][\A h \in Handles :
         handle'[h].status # handle[h].status
            => InTable(handle[h].status, Trigger, handle'[h].status)]_vars

\* C4: a logout of a registered instance during which the client's teardown
\* (logout or destroy) fails returns success, and the id is then neither in
\* the Session Store nor in the registry.
C4_LogoutSurvivesTeardownFailure ==
    (outcome.op = "logout" /\ outcome.err = "TeardownFailed")
        => /\ outcome.res = "ok"
           /\ outcome.id \notin sessionStore
           /\ instances[outcome.id] = None

\* C5: connect(id) on a connected instance returns the registered handle and
\* changes nothing: no initialize call, no new handle, status still
\* 'connected', nothing suspended, so any number of repetitions leave the
\* state one call leaves.
C5_ConnectIdempotent ==
    [][\A i \in AllIds :
         (Begins /\ Begun.op = "connect" /\ Begun.id = i /\ StatusOf(i) = "connected")
            => /\ outcome'.op = "connect" /\ outcome'.res = "ok"
               /\ outcome'.h = instances[i]
               /\ UNCHANGED <<instances, handle, client, sessionStore, db,
                              events, tasks, calls>>]_vars

C5_Witness ==
    /\ outcome.op = "connect" /\ outcome.res = "ok" /\ outcome.pre = "connected"
    /\ Len(hist) = outcome.n
    /\ calls[outcome.h].initialize = 1

\* C6: the step in which logout(id) removes the session leaves id out of the
\* Session Store and out of the registry; they stay so until a connect or a
\* createInstance acts;
\* and connect(id) on an id the registry lacks registers a handle never used
\* before, with a client never called, sets it 'connecting' and calls
\* initialize once.
LogoutRemoves(t) ==
    /\ t.op = "logout" /\ t.pc = "destroy"
    /\ [t EXCEPT !.pc = "persist"] \in tasks'

Gone(i) == i \notin sessionStore /\ instances[i] = None

C6_LogoutThenConnectIsFirstTime ==
    [][/\ \A t \in tasks : LogoutRemoves(t) => Gone(t.id)'
       /\ \A i \in AllIds : (Gone(i) /\ Trigger \notin {"connect", "createInstance"}) => Gone(i)'
       /\ \A i \in AllIds :
            (Begins /\ Begun.op = "connect" /\ Begun.id = i /\ instances[i] = None)
               => /\ instances'[i] \notin Allocated
                  /\ handle'[instances'[i]] = [NewInstance(i) EXCEPT !.status = "connecting"]
                  /\ client[instances'[i]] = "new"
                  /\ calls[instances'[i]] = NoCalls
                  /\ calls'[instances'[i]] = [NoCalls EXCEPT !.initialize = 1]
                  /\ i \in sessionStore'
                  /\ \E t \in tasks' \ tasks : t.h = instances'[i] /\ t.pc = "initialize"]_vars

C6_Witness ==
    /\ Kinds(hist) = <<"connect", "logout", "connect">>
    /\ hist[3].h # hist[1].h
    /\ hist[3].id = hist[1].id
    /\ instances[hist[3].id] = hist[3].h
    /\ handle[hist[3].h].status = "connecting"
    /\ calls[hist[3].h].initialize = 1

\* C7: while a command (connect, disconnect, logout) or a notification handler
\* of an instance is suspended, no step of another command or handler changes
\* the status or the challenge fields of that instance.
Serialized == {"connect", "disconnect", "logout", "qr", "ready", "auth_failure", "disconnected"}

C7_PerInstanceSerialized ==
    [][\A t \in tasks :
         (t.op \in Serialized /\ t \in tasks')
            => \A h \in Handles : handle[h].id = t.id => handle'[h] = handle[h]]_vars

\* C8: the events of one instance are published in the order in which its
\* client emitted their notifications; a challenge then a ready, handled to the
\* end with the account stored in the row, publish exactly 'qr' then 'ready'.
C8_PublishedInEmissionOrder ==
    /\ \A j, k \in DOMAIN events :
         (j < k /\ events[j].instanceId = events[k].instanceId)
            => events[j].n < events[k].n
    /\ (/\ Kinds(hist) = <<"connect", "qr", "ready">>
        /\ \A t \in tasks : t.op = "connect"
        /\ db[hist[1].id].waNumber = WidUser(hist[1].id))
            => [k \in DOMAIN events |-> events[k].kind] = <<"qr", "ready">>

\* C9: a connecting instance that received a challenge and then a ready, all
\* handlers run to their end and 'ready' published, is 'connected', has both
\* challenge fields empty, and its row holds CONNECTED with the account's
\* number and name.
C9_ChallengeThenReady ==
    (/\ Kinds(hist) = <<"connect", "qr", "ready">>
     /\ \A t \in tasks : t.op = "connect"
     /\ \E k \in DOMAIN events : events[k].kind = "ready")
        => /\ handle[hist[1].h].status = "connected"
           /\ Cleared(hist[1].h)
           /\ db[hist[1].id] = [status |-> "CONNECTED",
                                waNumber |-> WidUser(hist[1].id),
                                waName |-> PushName(hist[1].id)]

\* C10: disconnect(id) and logout(id) on an id the registry lacks fail with
\* NotFound and change neither the registry, the handles, the clients and the
\* calls made to them, the Session Store, the rows nor what is suspended.
C10_NotFoundChangesNothing ==
    [][\A i \in AllIds :
         (Begins /\ Begun.op \in {"disconnect", "logout"} /\ Begun.id = i /\ instances[i] = None)
            => /\ outcome'.op = Begun.op /\ outcome'.id = i
               /\ outcome'.res = "error" /\ outcome'.err = "NotFound"
               /\ UNCHANGED <<instances, handle, client, sessionStore, db,
                              events, tasks, calls>>]_vars

C10_Witness ==
    /\ outcome.op = "logout" /\ outcome.err = "NotFound"
    /\ outcome.n = Len(hist)
    /\ \E k \in DOMAIN hist : hist[k].op = "disconnect" /\ hist[k].h = None

----------------------------------------------------------------------------
\* The id of the command or handler the step belongs to.
TriggerId ==
    IF Begins THEN Begun.id
    ELSE IF \E t \in tasks : t \notin tasks' THEN (CHOOSE t \in tasks : t \notin tasks').id
    ELSE ""

Unpersisted == "PersistenceUnavailable"

\* C11: deleteInstance(id) on an id the registry lacks returns without error
\* and leaves the id out of the registry and of the Session Store; when the
\* id was already out of both, it changes nothing, so a second delete leaves
\* the state the first left.
C11_DeleteIdempotent ==
    [][\A i \in AllIds :
         (Begins /\ Begun.op = "delete" /\ Begun.id = i /\ instances[i] = None)
            => /\ outcome'.op = "delete" /\ outcome'.id = i /\ outcome'.res = "ok"
               /\ Gone(i)'
               /\ Gone(i) => UNCHANGED <<instances, handle, client, sessionStore, db,
                                         events, tasks, calls>>]_vars

C11_Witness ==
    /\ Kinds(hist) = <<"connect", "delete", "delete">>
    /\ hist[2].h # None /\ hist[3].h = None
    /\ outcome.op = "delete" /\ outcome.n = 3 /\ outcome.res = "ok"
    /\ Gone(outcome.id)

\* C12: a deleteInstance of a registered instance whose client.destroy()
\* rejects returns without error, with the id out of the Session Store and of
\* the registry.
C12_DeleteSwallowsTeardownFailure ==
    (outcome.op = "delete" /\ outcome.err = "TeardownFailed")
        => /\ outcome.res = "ok"
           /\ Gone(outcome.id)

C12_Witness ==
    /\ outcome.op = "delete" /\ outcome.err = "TeardownFailed" /\ outcome.res = "ok"
    /\ outcome.h # None
    /\ calls[outcome.h].destroy = 1
    /\ client[outcome.h] = "started"

\* C13: a disconnect of a registered instance whose client.destroy() rejects
\* leaves the instance 'disconnected' in memory and DISCONNECTED in its row.
C13_DisconnectSurvivesTeardownFailure ==
    (outcome.op = "disconnect" /\ outcome.err = "TeardownFailed")
        => /\ handle[outcome.h].status = "disconnected"
           /\ db[outcome.id].status = "DISCONNECTED"

\* C14: only logout and deleteInstance take a registered handle out of the
\* registry; disconnect, 'disconnected' and 'auth_failure' leave the registry
\* as it is and change a handle only to 'disconnected'; connect on a
\* registered id keeps its handle and builds no other.
C14_HandleRetained ==
    [][/\ \A i \in AllIds :
            (instances[i] # None /\ instances'[i] # instances[i])
               => Trigger \in {"logout", "delete"}
       /\ Trigger \in {"disconnect", "auth_failure", "disconnected"}
            => /\ instances' = instances
               /\ \A h \in Handles :
                    handle'[h] # handle[h]
                       => handle'[h] = [handle[h] EXCEPT !.status = "disconnected"]
       /\ \A i \in AllIds :
            (Begins /\ Begun.op = "connect" /\ Begun.id = i /\ instances[i] # None)
               => /\ Begun.h = instances[i]
                  /\ instances'[i] = instances[i]
                  /\ Allocated' = Allocated]_vars

C14_Witness ==
    /\ Len(hist) = 3
    /\ hist[1].op = "connect" /\ hist[3].op = "connect"
    /\ hist[2].op \in {"disconnect", "auth_failure", "disconnected"}
    /\ hist[3].h = hist[1].h
    /\ instances[hist[1].id] = hist[1].h
    /\ \A t \in tasks : t.n # 2
    /\ calls[hist[1].h].initialize = 2
    /\ Cardinality(Allocated) = 1

\* C15: an id leaves the Session Store only in a step of a logout or a
\* deleteInstance of that id.
C15_CredentialsOutliveAllButLogoutAndDelete ==
    [][\A i \in sessionStore :
         i \notin sessionStore'
            => (Trigger \in {"logout", "delete"} /\ TriggerId = i)]_vars

C15_Witness ==
    \E k \in DOMAIN hist :
        /\ hist[k].op \in {"logout", "delete"}
        /\ hist[k].h # None
        /\ calls[hist[k].h].initialize > 0
        /\ hist[k].id \notin sessionStore
        /\ \E j \in DOMAIN hist : j # k /\ hist[j].op \in {"disconnect", "sendText", "qr"}

\* C16: after a logout that returned without error the row of the instance
\* holds no account number and no display name.  (The row of a deleted
\* instance is its caller's to remove.)
C16_LogoutClearsAccount ==
    (outcome.op = "logout" /\ outcome.res = "ok")
        => /\ db[outcome.id].waNumber = Undefined
           /\ db[outcome.id].waName = Undefined

\* C17: every 'ready' notification whose handler has ended has its 'ready'
\* event published, and a rejected update of the row does not reject the
\* handler.
C17_ReadyPublishedDespitePersistenceFailure ==
    /\ \A k \in DOMAIN hist :
         (hist[k].op = "ready" /\ \A t \in tasks : t.n # k)
            => \E e \in DOMAIN events : events[e].n = k /\ events[e].kind = "ready"
    /\ (outcome.op = "ready" /\ outcome.err = Unpersisted) => outcome.res # "error"

\* C18: a rejected status update in disconnect or logout, or in the handler
\* of a challenge, an auth failure or a disconnection, changes no handle, no
\* registry entry and no session files; the command returns without error and
\* the notification's event is published.
C18_StatusUpdateFailureContained ==
    [][(/\ outcome'.err = Unpersisted
        /\ outcome'.op \in {"disconnect", "logout", "qr", "auth_failure", "disconnected"})
          => /\ UNCHANGED <<handle, instances, sessionStore, db>>
             /\ outcome'.op \in {"disconnect", "logout"} => outcome'.res = "ok"
             /\ outcome'.op \in {"qr", "auth_failure", "disconnected"}
                  => /\ outcome'.res = ""
                     /\ \E e \in DOMAIN events' :
                          events'[e].n = outcome'.n /\ events'[e].kind = outcome'.op]_vars

C18_Witness ==
    /\ outcome.err = Unpersisted /\ outcome.op = "auth_failure"
    /\ handle[outcome.h].status = "disconnected"
    /\ \E e \in DOMAIN events : events[e].n = outcome.n /\ events[e].kind = "auth_failure"
    /\ \E k \in DOMAIN hist : hist[k].op = "disconnect"

\* C19: a message notification whose payload cannot be formatted is dropped:
\* nothing is thrown back into the client's emit.
C19_MalformedMessageDropped ==
    (outcome.op = "message" /\ outcome.err = "MalformedPayload")
        => outcome.res = "dropped"

\* C20: formatNumber returns an address that contains '@' as it was given.
C20_AddressWithAtUnchanged ==
    (chatId # Undefined /\ Includes(number, "@")) => chatId = number

----------------------------------------------------------------------------
\* The last n characters of a string (the whole string when it is shorter).
Ending(str, n) ==
    IF Len(str) <= n THEN str ELSE SubSeq(str, Len(str) - n + 1, Len(str))

\* Digits, one '-', digits: a group address without its domain.
BareGroup(str) ==
    \E k \in DOMAIN str :
        /\ 1 < k /\ k < Len(str)
        /\ str[k] = "-"
        /\ \A j \in DOMAIN str : j # k => str[j] \in Digits

\* C21: formatNumber of digits, '-', digits ends in '@g.us'.
C21_BareGroupGetsGroupSuffix ==
    (chatId # Undefined /\ BareGroup(number)) => Ending(chatId, 5) = GroupSuffix

\* The digits of a string, in order.
RECURSIVE DigitsOf(_)
DigitsOf(str) ==
    IF str = <<>> THEN <<>>
    ELSE (IF Head(str) \in Digits THEN <<Head(str)>> ELSE <<>>) \o DigitsOf(Tail(str))

\* C22: formatNumber of an address without '@' that is not digits, '-',
\* digits returns the digits of the address, in order, followed by '@c.us'.
C22_BareNumberGetsUserSuffix ==
    (chatId # Undefined /\ ~Includes(number, "@") /\ ~BareGroup(number))
        => chatId = DigitsOf(number) \o UserSuffix

C22_Witness ==
    /\ number = <<"+", "5", "5", " ", "1", "1", " ", "9", "9", "9", "9", "9", "-", "9", "9", "9", "9">>
    /\ chatId = <<"5", "5", "1", "1", "9", "9", "9", "9", "9", "9", "9", "9", "9">> \o UserSuffix

\* C23: every facade method that takes an address hands the client the
\* address formatNumber makes of it.
C23_EveryCallSiteNormalizes ==
    passed.site # "none" => passed.arg = FormatNumber(number)

\* C24: every published event reaches every listener of the bus, also when
\* one of them throws, and the handler that published it does not fail.
C24_FailingSubscriberIsolated ==
    /\ \A k \in DOMAIN events : \A s \in Subscribers : <<events[k].n, s>> \in delivered
    /\ outcome.op = "authenticated" => outcome.res # "error"

\* C25: the handle registered under an id is a handle of that id, and a
\* createInstance(id) for a registered id throws 'already exists' and changes
\* neither the registry, the handles, their clients nor anything else.
C25_CreateNeverReplaces ==
    [][/\ \A i \in AllIds : instances'[i] # None => handle'[instances'[i]].id = i
       /\ \A i \in AllIds :
            (Begins /\ Begun.op = "createInstance" /\ Begun.id = i /\ instances[i] # None)
               => /\ outcome'.op = "createInstance" /\ outcome'.id = i
                  /\ outcome'.res = "error" /\ outcome'.err = "AlreadyExists"
                  /\ UNCHANGED <<instances, handle, client, sessionStore, db,
                                 events, tasks, calls>>]_vars

C25_Witness ==
    /\ outcome.op = "createInstance" /\ outcome.err = "AlreadyExists"
    /\ outcome.n = Len(hist)
    /\ instances[outcome.id] = outcome.h
    /\ handle[outcome.h].status = "connecting"
    /\ calls[outcome.h].initialize = 1

\* The handle's latest notification was 'disconnected' or 'auth_failure' and
\* no connect of its instance was invoked since.
TakenDown(h) ==
    \E k \in DOMAIN hist :
        /\ hist[k].op \in {"disconnected", "auth_failure"} /\ hist[k].h = h
        /\ \A j \in DOMAIN hist : (j > k /\ hist[j].id = hist[k].id) => hist[j].op # "connect"

\* C26: from a 'disconnected' or 'auth_failure' notification of an instance
\* until a connect of it is invoked, no initialize is called on its client and
\* its status, once 'disconnected', stays 'disconnected'.
C26_NoReconnectWithoutConnect ==
    [][\A h \in Handles :
         (TakenDown(h) /\ ~(Begins /\ Begun.op = "connect" /\ Begun.id = handle[h].id))
            => /\ calls'[h].initialize = calls[h].initialize
               /\ handle[h].status = "disconnected" => handle'[h].status = "disconnected"]_vars

\* C27: no step of sendText, getStatus or getQRCode, whether the call
\* succeeds or fails, changes a handle (status, challenge fields), the
\* registry, the Session Store or a row.
C27_SendsAndQueriesChangeNoState ==
    [][(Trigger \in {"sendText", "getStatus", "getQRCode"})
         => UNCHANGED <<instances, handle, sessionStore, db>>]_vars

C27_Witness ==
    /\ outcome.op = "sendText" /\ outcome.err = "DeliveryFailed"
    /\ handle[outcome.h].status = "connected"
    /\ instances[outcome.id] = outcome.h

\* C30: no step of deleteInstance changes a row: status, number and name of
\* every instance are what they were, with or without a registered handle.
C30_DeleteWritesNoRow ==
    [][(Trigger = "delete") => (db' = db)]_vars

C30_Witness ==
    /\ Kinds(hist) = <<"connect", "ready", "delete">>
    /\ outcome.op = "delete" /\ outcome.res = "ok" /\ outcome.h # None
    /\ Gone(outcome.id)
    /\ db[outcome.id] = [status |-> "CONNECTED", waNumber |-> WidUser(outcome.id),
                         waName |-> PushName(outcome.id)]

\* C28: a sendText that waits for its client can return whatever other sends
\* are waiting: the one of A while the one of B waits, and the reverse.
C28_SendsProceedIndependently ==
    \A t \in tasks : t.op = "sendText" => ENABLED SendTextSent(t, TRUE)

C28_Witness ==
    /\ outcome.op = "sendText" /\ outcome.res = "ok" /\ outcome.n = 2
    /\ \E t \in tasks : t.op = "sendText" /\ t.n = 1 /\ t.id # outcome.id /\ t.h # outcome.h
    /\ handle[outcome.h].status = "connected"

\* The category of an HTTP status.
Category(status) ==
    CASE status = 404 -> "not-found"
      [] status = 409 -> "conflict"
      [] status = 412 -> "precondition-failed"
      [] status \in {502, 503, 504} -> "upstream-failure"
      [] status \in 200..299 -> "success"
      [] OTHER -> "internal-error"

\* C29: the response of POST /message/text to a failed sendText is of the
\* precondition-failed or not-found category when the instance is unknown or
\* not connected and of the upstream-failure category when the client failed
\* the delivery, and it carries the reason.
C29_RouteDistinguishesFailures ==
    (outcome.op = "sendText" /\ outcome.res = "error")
        => /\ PostText(outcome).message = outcome.err
           /\ outcome.err = "NotConnected"
                => Category(PostText(outcome).status) \in {"precondition-failed", "not-found"}
           /\ outcome.err = "DeliveryFailed"
                => Category(PostText(outcome).status) = "upstream-failure"

----------------------------------------------------------------------------
\* C33: a handle whose status is 'connected' has both challenge fields empty,
\* in every state, whatever the order of the challenge's rendering and a
\* 'ready'.
C33_ConnectedHasNoChallenge ==
    \A h \in Allocated : handle[h].status = "connected" => Cleared(h)

\* C34: no handle has two initialize calls of connect pending at once.
C34_SingleInitializeInFlight ==
    \A h \in Handles :
        Cardinality({t \in tasks : t.op = "connect" /\ t.pc = "initialize" /\ t.h = h}) <= 1

\* C38: a handle both of whose challenge fields are populated and none of
\* whose challenge handlers is suspended has the rendering of its qrCode in
\* qrCodeBase64; and every 'qr' event carries the rendering of its own raw
\* challenge.
C38_RenderingMatchesChallenge ==
    /\ \A h \in Allocated :
         (Populated(h) /\ ~\E t \in tasks : t.op = "qr" /\ t.h = h)
            => handle[h].qrCodeBase64 = ToDataURL(handle[h].qrCode)
    /\ \A k \in DOMAIN events :
         events[k].kind = "qr" => events[k].qrBase64 = ToDataURL(events[k].qr)

\* C39: the step in which initialize rejects returns the error to connect's
\* caller and changes no handle (its status stays as it was), no registry
\* entry, no session files and no row, and publishes nothing; and a connect of a registered handle that is not 'connected' keeps
\* the handle and calls initialize on it once more.
C39_InitializeFailureKeepsHandle ==
    [][/\ (outcome'.op = "connect" /\ outcome'.err = "InitializeFailed")
            => /\ outcome'.res = "error"
               /\ UNCHANGED <<instances, handle, sessionStore, db, events>>
       /\ \A i \in AllIds :
            (Begins /\ Begun.op = "connect" /\ Begun.id = i /\ instances[i] # None
                    /\ StatusOf(i) # "connected")
               => /\ instances'[i] = instances[i]
                  /\ calls'[instances[i]].initialize = calls[instances[i]].initialize + 1
                  /\ handle'[instances[i]].status = "connecting"]_vars

C39_Witness ==
    /\ Kinds(hist) = <<"connect", "connect">>
    /\ outcome.op = "connect" /\ outcome.err = "InitializeFailed" /\ outcome.n = 1
    /\ \E t \in tasks : t.op = "connect" /\ t.n = 2 /\ t.h = outcome.h
    /\ instances[outcome.id] = outcome.h
    /\ handle[outcome.h].status = "connecting"
    /\ calls[outcome.h].initialize = 2
    /\ db[outcome.id] = NoRow

----------------------------------------------------------------------------
\* C35: the step of logout that removes the registry entry and the session
\* files removes those of the handle logout looked up: when the registry
\* holds another handle for the id by then, that handle stays registered and
\* the session files of the id stay in place.
C35_LogoutRemovesOnlyItsHandle ==
    [][\A t \in tasks :
         (t.op = "logout" /\ t.pc = "destroy" /\ t \notin tasks'
                /\ instances[t.id] \notin {None, t.h})
            => /\ instances'[t.id] = instances[t.id]
               /\ (t.id \in sessionStore => t.id \in sessionStore')]_vars

\* Notification t was emitted by a handle that was out of the registry: a
\* connect had registered a newer handle for the id before it.
Superseded(t) ==
    \E m \in 1..(t.n - 1) :
        hist[m].op = "connect" /\ hist[m].id = t.id /\ hist[m].h > t.h

Lifecycle == {"qr", "ready", "auth_failure", "disconnected"}

\* C36: no step of the handler of a notification that a removed handle's
\* client emitted changes the row of the id or the status of the handle the
\* registry holds for the id.
C36_RemovedHandleIsInert ==
    [][/\ \A t \in tasks :
            (t.op \in Lifecycle /\ t \notin tasks' /\ Superseded(t))
               => /\ db'[t.id] = db[t.id]
                  /\ instances[t.id] # None
                        => handle'[instances[t.id]].status = handle[instances[t.id]].status
       /\ (Begins /\ Begun.op \in Lifecycle /\ instances[Begun.id] # Begun.h)
            => /\ db' = db
               /\ instances[Begun.id] # None
                     => handle'[instances[Begun.id]].status
                          = handle[instances[Begun.id]].status]_vars

----------------------------------------------------------------------------
Quiescent == tasks = {}

\* C37: with no command and no handler in progress, every registered
\* instance has the row status CONNECTED exactly when its status is
\* 'connected'.
C37_PersistedMatchesMemory ==
    Quiescent =>
        \A i \in ids :
            instances[i] # None
                => (db[i].status = "CONNECTED" <=> StatusOf(i) = "connected")

----------------------------------------------------------------------------
Notifications ==
    Lifecycle \cup {"authenticated", "message"} \cup Payloads \cup Forwards

\* The events published for notification n, in the state a step leads to.
EventsOf(n) == {k \in DOMAIN events' : events'[k].n = n}

\* The step ends the handler of notification n, and not with an error.
Handled(n) ==
    /\ hist'[n].op \in Notifications
    /\ ~\E t \in tasks' : t.n = n
    /\ \/ Begins /\ n = Len(hist')
       \/ \E t \in tasks : t.n = n
    /\ ~(outcome'.n = n /\ outcome'.res = "error")

\* C32: a handler that ends without error has published exactly one event
\* for its notification; every event belongs to a notification of one of
\* the thirteen kinds, has its kind and carries the id of the instance whose
\* client emitted it; no notification has two events.
C32_OneEventPerNotification ==
    [][/\ \A n \in DOMAIN hist' : Handled(n) => Cardinality(EventsOf(n)) = 1
       /\ \A n \in DOMAIN hist' : Cardinality(EventsOf(n)) <= 1
       /\ \A k \in DOMAIN events' :
            /\ events'[k].n \in DOMAIN hist'
            /\ events'[k].kind \in Notifications
            /\ hist'[events'[k].n].op = events'[k].kind
            /\ hist'[events'[k].n].h \in Allocated'
            /\ events'[k].instanceId = handle'[hist'[events'[k].n].h].id]_vars

C32_Witness ==
    /\ Kinds(hist) = <<"connect", "message_ack", "group_join">>
    /\ Len(events) = 2
    /\ events[1].kind = "message_ack" /\ events[1].n = 2
    /\ events[2].kind = "group_join" /\ events[2].n = 3
    /\ events[2].instanceId = handle[hist[3].h].id

----------------------------------------------------------------------------
\* C31: a step of a command or of a handler of instance A leaves, for every
\* other id B, the registry entry, every handle of B (status and challenge
\* fields), the row and the session files of B as they were, and an event
\* the step publishes carries the id A.
C31_OtherInstanceUntouched ==
    [][\A B \in AllIds \ {TriggerId} :
         /\ instances'[B] = instances[B]
         /\ \A h \in Handles : handle[h].id = B => handle'[h] = handle[h]
         /\ db'[B] = db[B]
         /\ (B \in sessionStore <=> B \in sessionStore')
         /\ Len(events') > Len(events) => events'[Len(events')].instanceId # B]_vars

C31_Witness ==
    /\ outcome.op = "delete" /\ outcome.id = "a" /\ outcome.res = "ok"
    /\ instances["a"] = None /\ "a" \notin sessionStore
    /\ instances["b"] = 2 /\ handle[2] = Connected("b")
    /\ "b" \in sessionStore
    /\ db["b"].status = "CONNECTED"
    /\ \E k \in DOMAIN events : events[k].instanceId = "a"

----------------------------------------------------------------------------
\* C40: the step that answers a login whose lookup found no row, or a row
\* whose hash is not that of the password given, gives the one response
\* 401 'Invalid credentials' without a token, the same in both cases; the
\* step gives a token only when the row of the email holds the hash of the
\* password given, and then it gives 200 with the token of that user.
C40_LoginRevealsNothing ==
    [][(pending # NoPending /\ pending' = NoPending) =>
          /\ reply'.route = "login"
          /\ reply'.email = pending.email /\ reply'.password = pending.password
          /\ IF pending.user = Hash(pending.password)
             THEN /\ reply'.status = Ok
                  /\ reply'.token = Token(pending.email)
             ELSE Visible(reply') = InvalidCredentials
          /\ reply'.token # NoToken => users[pending.email] = Hash(pending.password)]_avars

\* A wrong password for a registered email was answered.
C40_Witness ==
    /\ reply.route = "login"
    /\ users[reply.email] \notin {NoUser, Hash(reply.password)}
    /\ Visible(reply) = InvalidCredentials
    /\ \E e \in Emails : users[e] = NoUser

====
